---------------------------- MODULE Spec2Model ----------------------------
(***************************************************************************)
(* Model of the finding re-anchoring engine of AuditAI                     *)
(* (security/helpers: normalizeFindingLines and its helpers).              *)
(*                                                                         *)
(* A JavaScript string is a sequence of one-character strings.  A value    *)
(* that is `T | null` in the source and whose non-null values are never    *)
(* empty sequences is modelled by a sequence, with << >> for null; an      *)
(* optional number is a sequence of length 0 (absent) or 1 (present).      *)
(***************************************************************************)
EXTENDS Integers, Sequences, FiniteSets, TLC

VARIABLES
    fileContent,    \* the content of the uploaded file (file.content)
    findings,       \* the array handed to normalizeFindings, as validated
    results,        \* the array normalizeFindings returned; << >> before the call
    results2,       \* the array returned when normalizeFindings is run on `results`
    pc,             \* the position of the run: "received" | "normalized" |
                    \* "renormalized" | "threw" in the pipeline, and the
                    \* positions of the other runs below
    apiData,        \* findingsForLine: the ApiSuccess | null it is given
    lineNumber,     \* the 1-based display line asked for
    lineFindings,   \* the array findingsForLine returned
    lineText,       \* computeHighlightForLine: the text of the rendered line
    lineFinding,    \* the finding it is given
    highlight,      \* the HighlightParts it returned
    predictions,    \* scoreFindings: the findings the endpoint returned
    expected,       \* the expected_findings of the fixture
    score,          \* the Score it returned
    request,        \* POST: the route and the JSON body of the request
    upstream,       \* what the model behind the analyzer does for this request
    analyzerCalls,  \* how many times the handler called the analyzer
    response,       \* the status and the JSON body of the response
    looseLine,      \* includesLoosely: the file line it is given
    looseSnippetLine, \* the snippet line it is given
    looseResult,    \* what it returned
    searchLines,    \* collectSnippetCandidates: the lines of the file
    searchSnippet,  \* the lines of the snippet
    searchResult,   \* the candidates it returned
    cache,          \* registry: the cached registry, or null
    reads,          \* how many times the allow-list file was read and parsed
    callers,        \* the position of each analyzer and the registry it got
    entries,        \* compare: the result of each model that has settled
    reported,       \* coercion: the severities the model reported
    coercion,       \* the function that coerces the response
    coerced,        \* the severities and the summary counts it computed
    selectedFile,   \* Home: the state `file`
    readers,        \* the FileReaders that have not fired onload yet
    model,          \* the state `model`
    fetching,       \* the request of handleAnalyze awaiting its response
    isLoading,      \* the state `isLoading`
    comparisonData  \* the state `comparisonData`

engineVars == <<fileContent, findings, results, results2>>
displayVars == <<apiData, lineNumber, lineFindings, lineText, lineFinding, highlight>>
metricsVars == <<predictions, expected, score>>
routeVars == <<request, upstream, analyzerCalls, response>>

searchVars == <<looseLine, looseSnippetLine, looseResult, searchLines, searchSnippet, searchResult>>
registryVars == <<cache, reads, callers>>
compareVars == <<entries>>
coercionVars == <<reported, coercion, coerced>>
homeVars == <<selectedFile, readers, model, fetching, isLoading, comparisonData>>

\* the variables of the search, registry, compare, coercion and page runs
restVars == <<searchVars, registryVars, compareVars, coercionVars, homeVars>>

vars == <<engineVars, pc, displayVars, metricsVars, routeVars, restVars>>

---------------------------------------------------------------------------
(* Bounds of the input space *)

MaxFileLines == 3
MaxSnippetLines == 3
MaxHint == 4

---------------------------------------------------------------------------
(* Characters and the JavaScript string primitives the engine uses *)

LF == "\n"
CR == "\r"
SP == " "

\* what String.prototype.trim and the regex class \s remove
Whitespace == {SP, "\t", LF, CR}

\* String.prototype.toLowerCase, on the characters of the model
ToLower(ch) == CASE ch = "A" -> "a" [] ch = "B" -> "b" [] OTHER -> ch

Min(S) == CHOOSE m \in S : \A n \in S : m <= n

Max2(a, b) == IF a >= b THEN a ELSE b

Abs(n) == IF n < 0 THEN 0 - n ELSE n

\* s.slice(from) with a 0-based index
SliceFrom(s, from) == SubSeq(s, from + 1, Len(s))

\* the 0-based indices at which needle occurs in hay
Occurrences(hay, needle) ==
    { i \in 0..(Len(hay) - Len(needle)) : SubSeq(hay, i + 1, i + Len(needle)) = needle }

\* String.prototype.indexOf: the first occurrence, or -1
IndexOf(hay, needle) ==
    LET occ == Occurrences(hay, needle)
    IN  IF occ = {} THEN 0 - 1 ELSE Min(occ)

\* String.prototype.includes
Includes(hay, needle) == Occurrences(hay, needle) # {}

\* String.prototype.trim
Trim(s) ==
    LET keep == { i \in 1..Len(s) : s[i] \notin Whitespace }
    IN  IF keep = {} THEN << >>
        ELSE SubSeq(s, Min(keep), CHOOSE m \in keep : \A n \in keep : n <= m)

\* s.replace(/\r\n/g, "\n")
RECURSIVE ReplaceCRLF(_)
ReplaceCRLF(s) ==
    IF s = << >> THEN << >>
    ELSE IF Len(s) >= 2 /\ s[1] = CR /\ s[2] = LF
         THEN <<LF>> \o ReplaceCRLF(SliceFrom(s, 2))
         ELSE <<s[1]>> \o ReplaceCRLF(Tail(s))

\* s.split("\n")
RECURSIVE SplitLF(_)
SplitLF(s) ==
    LET i == IndexOf(s, <<LF>>)
    IN  IF i = 0 - 1 THEN <<s>>
        ELSE <<SubSeq(s, 1, i)>> \o SplitLF(SliceFrom(s, i + 1))

\* s.split(/\r?\n/): a line ends at "\n", and one "\r" right before it
\* belongs to the separator
RECURSIVE SplitLines(_)
SplitLines(s) ==
    LET i == IndexOf(s, <<LF>>)
    IN  IF i = 0 - 1 THEN <<s>>
        ELSE LET end == IF i >= 1 /\ s[i] = CR THEN i - 1 ELSE i
             IN  <<SubSeq(s, 1, end)>> \o SplitLines(SliceFrom(s, i + 1))

\* parts.join("\n")
RECURSIVE JoinLF(_)
JoinLF(parts) ==
    IF parts = << >> THEN << >>
    ELSE IF Len(parts) = 1 THEN parts[1]
    ELSE parts[1] \o <<LF>> \o JoinLF(Tail(parts))

\* arr[i] ?? "" with a 0-based index: a missing element reads as ""
LineOrEmpty(arr, i) == IF i >= 0 /\ i < Len(arr) THEN arr[i + 1] ELSE << >>

---------------------------------------------------------------------------
(* helpers of the engine *)

\* normalizeForMatch without toLowerCase
normalizeForMatch_keepsCase(value) ==
    LET NotWs(ch) == ch \notin Whitespace
    IN  SelectSeq(value, NotWs)

normalizeForMatch(value) ==
    LET NotWs(ch) == ch \notin Whitespace
        compact == SelectSeq(value, NotWs)
    IN  [i \in 1..Len(compact) |-> ToLower(compact[i])]

includesLoosely(haystack, needle) ==
    IF needle = << >> THEN FALSE
    ELSE IF Includes(haystack, needle) THEN TRUE
    ELSE LET compactHaystack == normalizeForMatch(haystack)
             compactNeedle == normalizeForMatch(needle)
         IN  IF compactHaystack = << >> \/ compactNeedle = << >> THEN FALSE
             ELSE Includes(compactHaystack, compactNeedle)

\* getExpectedLine with line 1 as the default where the source returns null
getExpectedLine_defaultsToFirst(finding) ==
    LET numeric == { i \in 1..Len(finding.fix.patch) : Len(finding.fix.patch[i].line) = 1 }
    IN  IF Len(finding.evidence.lines) > 0 THEN <<finding.evidence.lines[1]>>
        ELSE IF numeric = {} THEN <<1>>
        ELSE finding.fix.patch[Min(numeric)].line

\* number | null as a sequence of length 1 or 0
getExpectedLine(finding) ==
    LET evidenceLines == finding.evidence.lines
        numeric == { i \in 1..Len(finding.fix.patch) : Len(finding.fix.patch[i].line) = 1 }
    IN  IF Len(evidenceLines) > 0 THEN <<evidenceLines[1]>>
        ELSE IF numeric = {} THEN << >>
        ELSE finding.fix.patch[Min(numeric)].line

\* snippetLines.map((l) => l.trim()).filter(Boolean)
Meaningful(snippetLines) ==
    LET NonEmpty(l) == l # << >>
    IN  SelectSeq([i \in 1..Len(snippetLines) |-> Trim(snippetLines[i])], NonEmpty)

\* the window loop with the bound `i < fileLines.length`
WindowOffsets_pastEnd(fileLines, meaningful) == 0..(Len(fileLines) - 1)

\* the offsets i the window loop of collectSnippetCandidates visits
WindowOffsets(fileLines, meaningful) == 0..(Len(fileLines) - Len(meaningful))

\* the number of snippet lines the inner loop compares at offset i before it
\* stops: all of them, or up to and including the first that does not match
Compared(fileLines, meaningful, i) ==
    LET miss == { j \in 0..(Len(meaningful) - 1) :
                    ~includesLoosely(LineOrEmpty(fileLines, i + j), meaningful[j + 1]) }
    IN  IF miss = {} THEN Len(meaningful) ELSE Min(miss) + 1

\* fileLines[i + j] is undefined for some pair the loops reach, so that
\* haystack.includes raises a TypeError
WindowReadsUndefined(fileLines, meaningful) ==
    /\ Len(meaningful) > 1
    /\ \E i \in WindowOffsets(fileLines, meaningful) :
          \E j \in 0..(Compared(fileLines, meaningful, i) - 1) : i + j >= Len(fileLines)

\* the set as the ascending array the loop pushes
RECURSIVE Ascending(_)
Ascending(S) ==
    IF S = {} THEN << >> ELSE <<Min(S)>> \o Ascending(S \ {Min(S)})

\* the signature without the search for a longer line: meaningful[0]
Signature_first(meaningful) == meaningful[1]

\* the longest meaningful line, the first of them on a tie
Signature(meaningful) ==
    LET best == { i \in 1..Len(meaningful) :
                    \A k \in 1..Len(meaningful) : Len(meaningful[k]) <= Len(meaningful[i]) }
    IN  meaningful[Min(best)]

collectSnippetCandidates(fileLines, snippetLines) ==
    LET meaningful == Meaningful(snippetLines)
        window == IF Len(meaningful) > 1
                  THEN { i \in WindowOffsets(fileLines, meaningful) :
                           \A j \in 0..(Len(meaningful) - 1) :
                              includesLoosely(LineOrEmpty(fileLines, i + j), meaningful[j + 1]) }
                  ELSE {}
        single == { i \in 0..(Len(fileLines) - 1) :
                      includesLoosely(fileLines[i + 1], Signature(meaningful)) }
    IN  IF meaningful = << >> THEN << >>
        ELSE IF window # {} THEN Ascending(window)
        ELSE Ascending(single)

\* deriveSnippetFromLines reading fileLines[ln], the line numbers taken as
\* 0-based indices
deriveSnippetFromLines_zeroBased(fileLines, finding) ==
    LET lineNumbers == finding.evidence.lines
    IN  IF Len(lineNumbers) = 0 THEN << >>
        ELSE Trim(JoinLF([i \in 1..Len(lineNumbers) |->
                            LineOrEmpty(fileLines, lineNumbers[i])]))

deriveSnippetFromLines(fileLines, finding) ==
    LET lineNumbers == finding.evidence.lines
    IN  IF Len(lineNumbers) = 0 THEN << >>
        ELSE Trim(JoinLF([i \in 1..Len(lineNumbers) |->
                            LineOrEmpty(fileLines, lineNumbers[i] - 1)]))

\* findLinesByDirectMatch with lastIndexOf in the place of indexOf
findLinesByDirectMatch_lastIndexOf(content, snippet) ==
    LET normalizedSnippet == ReplaceCRLF(snippet)
        occ == Occurrences(content, normalizedSnippet)
        idx == IF occ = {} THEN 0 - 1 ELSE CHOOSE m \in occ : \A n \in occ : n <= m
        prefix == SubSeq(content, 1, idx)
        startLine == IF Len(prefix) = 0 THEN 1 ELSE Len(SplitLF(prefix))
        snippetLineCount == Max2(Len(SplitLF(normalizedSnippet)), 1)
    IN  IF snippet = << >> THEN << >>
        ELSE IF idx = 0 - 1 THEN << >>
        ELSE [i \in 1..snippetLineCount |-> startLine + i - 1]

findLinesByDirectMatch(content, snippet) ==
    LET normalizedSnippet == ReplaceCRLF(snippet)
        idx == IndexOf(content, normalizedSnippet)
        prefix == SubSeq(content, 1, idx)
        startLine == IF Len(prefix) = 0 THEN 1 ELSE Len(SplitLF(prefix))
        snippetLineCount == Max2(Len(SplitLF(normalizedSnippet)), 1)
    IN  IF snippet = << >> THEN << >>
        ELSE IF idx = 0 - 1 THEN << >>
        ELSE [i \in 1..snippetLineCount |-> startLine + i - 1]

\* Math.max(snippetLines.map((line) => line.trim()).filter(Boolean).length, 1)
SnippetCount(snippetLines) == Max2(Len(Meaningful(snippetLines)), 1)

\* the lines emitted when no candidate exists and a line hint does
FallbackLines(expectedLine, snippetCount) ==
    [i \in 1..snippetCount |-> expectedLine + i - 1]

\* ChooseBase without the comparison with the hint
ChooseBase_first(candidates, expectedLine) == candidates[1]

\* the candidate closest to the hint, the earliest of them on a tie; the
\* first candidate without a hint
ChooseBase(candidates, expectedLine) ==
    IF expectedLine = << >> THEN candidates[1]
    ELSE LET expectedIdx == Max2(expectedLine[1] - 1, 0)
             diff(k) == Abs(candidates[k] - expectedIdx)
             best == { k \in 1..Len(candidates) :
                         \A m \in 1..Len(candidates) : diff(k) <= diff(m) }
         IN  candidates[Min(best)]

\* the range without the test lineNumber <= fileLines.length
RangeFrom_unclipped(baseIndex, snippetCount, fileLines) ==
    [i \in 1..snippetCount |-> baseIndex + i]

\* baseIndex + 1 + i for i < snippetCount, as far as the file reaches
RangeFrom(baseIndex, snippetCount, fileLines) ==
    LET kept == { i \in 0..(snippetCount - 1) : baseIndex + 1 + i <= Len(fileLines) }
    IN  [i \in 1..Cardinality(kept) |-> baseIndex + i]

\* the same, with the line of every fix.patch entry moved to the new first line
WithLines_correctsPatch(finding, lines) ==
    [finding EXCEPT
        !.evidence.lines = lines,
        !.fix.patch = [k \in 1..Len(@) |->
                         [line |-> IF lines = << >> THEN @[k].line ELSE <<lines[1]>>]]]

\* { ...finding, evidence: { ...finding.evidence, lines } }
WithLines(finding, lines) == [finding EXCEPT !.evidence.lines = lines]

\* WithSnippet with the snippet trimmed
WithSnippet_trims(finding, snippet) == [finding EXCEPT !.evidence.snippet = Trim(snippet)]

\* { ...finding, evidence: { ...finding.evidence, snippet } }
WithSnippet(finding, snippet) == [finding EXCEPT !.evidence.snippet = snippet]

\* One call of normalizeFindingLines: the finding it returns and the return
\* statement it leaves through.
Reanchor(content, finding) ==
    LET normalizedFile == ReplaceCRLF(content)
        fileLines == SplitLines(content)
        expectedLine == getExpectedLine(finding)
        rawSnippet == finding.evidence.snippet
        trimmed == Trim(rawSnippet)
        rawMatch == findLinesByDirectMatch(normalizedFile, rawSnippet)
        directLines == IF rawMatch # << >> THEN rawMatch
                       ELSE findLinesByDirectMatch(normalizedFile, trimmed)
        derived == deriveSnippetFromLines(fileLines, finding)
        snippet == IF trimmed = << >> THEN Trim(derived) ELSE trimmed
        workingFinding == IF trimmed = << >> /\ derived # << >>
                          THEN WithSnippet(finding, derived)
                          ELSE finding
        snippetLines == SplitLines(snippet)
        snippetCount == SnippetCount(snippetLines)
        candidates == collectSnippetCandidates(fileLines, snippetLines)
    IN  IF directLines # << >>
        THEN [path |-> "direct",
              out |-> WithLines(finding, directLines)]
        ELSE IF trimmed = << >> /\ derived = << >>
        THEN IF expectedLine # << >> /\ expectedLine[1] > 0
             THEN [path |-> "hintOnly",
                   out |-> WithLines(WithSnippet(workingFinding,
                                              LineOrEmpty(fileLines, expectedLine[1] - 1)),
                                   <<expectedLine[1]>>)]
             ELSE [path |-> "noSnippet", out |-> workingFinding]
        ELSE IF candidates = << >>
        THEN IF expectedLine # << >>
             THEN [path |-> "fallback",
                   out |-> WithLines(workingFinding,
                                   FallbackLines(expectedLine[1], snippetCount))]
             ELSE [path |-> "notFound", out |-> workingFinding]
        ELSE [path |-> "candidate",
              out |-> WithLines(workingFinding,
                              RangeFrom(ChooseBase(candidates, expectedLine),
                                        snippetCount, fileLines))]

normalizeFindingLines(content, finding) == Reanchor(content, finding).out

\* the call raises instead of returning
Throws(content, finding) ==
    LET fileLines == SplitLines(content)
        trimmed == Trim(finding.evidence.snippet)
        snippet == IF trimmed = << >>
                   THEN Trim(deriveSnippetFromLines(fileLines, finding)) ELSE trimmed
    IN  /\ Reanchor(content, finding).path \in {"fallback", "notFound", "candidate"}
        /\ WindowReadsUndefined(fileLines, Meaningful(SplitLines(snippet)))

\* findings.map((f) => normalizeFindingLines(fileContent, f))
normalizeFindings(content, fs) ==
    [i \in 1..Len(fs) |-> normalizeFindingLines(content, fs[i])]

---------------------------------------------------------------------------
(* The inputs: files and findings built from a few line texts *)

FileLineTexts == { << >>, <<"a">>, <<SP, "a">> }

SnippetLineTexts == { << >>, <<"a">>, <<"A">>, <<"b">> }

LineBreaks == { <<LF>>, <<CR, LF>> }

RECURSIVE FilesOf(_)
FilesOf(n) ==
    IF n = 1 THEN FileLineTexts
    ELSE { f \o br \o t : f \in FilesOf(n - 1), br \in LineBreaks, t \in FileLineTexts }

Files == UNION { FilesOf(n) : n \in 1..MaxFileLines }

RECURSIVE SnippetsOf(_)
SnippetsOf(n) ==
    IF n = 1 THEN SnippetLineTexts
    ELSE { s \o <<LF>> \o t : s \in SnippetsOf(n - 1), t \in SnippetLineTexts }

Snippets == UNION { SnippetsOf(n) : n \in 1..MaxSnippetLines }

\* evidence.lines as the model may report it: nothing, one number (also 0,
\* negative or past the end of the file), or two numbers
LineHints ==
    { << >>, <<0 - 1>>, <<1, 3>> } \cup { <<h>> : h \in 0..MaxHint }

\* fix.patch: each entry with or without a numeric line
PatchHints ==
    { << >>,
      <<[line |-> <<1>>]>>,
      <<[line |-> << >>], [line |-> <<2>>]>>,
      <<[line |-> <<MaxHint>>]>>,
      <<[line |-> <<0>>]>> }

\* fix.patch is read for a hint only when evidence.lines is empty
Hints ==
    { <<l, p>> \in LineHints \X PatchHints :
        l = << >> \/ p = << >> \/ (l = <<MaxHint>> /\ p = <<[line |-> <<1>>]>>) }

Finding(snippet, lines, patch) ==
    [ id |-> "sql-injection", severity |-> "High", confidence |-> 90,
      cwe |-> "CWE-89", owasp |-> "A03",
      evidence |-> [lines |-> lines, snippet |-> snippet],
      explanation |-> "query built from input",
      fix |-> [patch |-> patch, notes |-> "bind parameters"] ]

Findings == { Finding(s, h[1], h[2]) : s \in Snippets, h \in Hints }

\* the arrays handed to normalizeFindings: empty, one finding, or two
\* findings with one-line snippets
Companions == { Finding(s, l, << >>) : s \in SnippetLineTexts, l \in { << >>, <<MaxHint>> } }

FindingArrays ==
    { << >> } \cup { <<f>> : f \in Findings } \cup { <<f, g>> : f \in Companions, g \in Companions }

---------------------------------------------------------------------------
(* The pipeline: the array is re-anchored, and re-anchored once more *)

\* the variables of the runs a specification does not make
DisplayIdle ==
    /\ apiData = << >>
    /\ lineNumber = 0
    /\ lineFindings = << >>
    /\ lineText = << >>
    /\ lineFinding = << >>
    /\ highlight = << >>

MetricsIdle ==
    /\ predictions = << >>
    /\ expected = << >>
    /\ score = << >>

RouteIdle ==
    /\ request = << >>
    /\ upstream = << >>
    /\ analyzerCalls = 0
    /\ response = << >>

EngineIdle ==
    /\ fileContent = << >>
    /\ findings = << >>
    /\ results = << >>
    /\ results2 = << >>

SearchIdle ==
    /\ looseLine = << >>
    /\ looseSnippetLine = << >>
    /\ looseResult = FALSE
    /\ searchLines = << >>
    /\ searchSnippet = << >>
    /\ searchResult = << >>

RegistryIdle ==
    /\ cache = << >>
    /\ reads = 0
    /\ callers = << >>

CompareIdle == entries = << >>

CoercionIdle ==
    /\ reported = << >>
    /\ coercion = ""
    /\ coerced = << >>

HomeIdle ==
    /\ selectedFile = << >>
    /\ readers = {}
    /\ model = ""
    /\ fetching = << >>
    /\ isLoading = FALSE
    /\ comparisonData = << >>

RestIdle == SearchIdle /\ RegistryIdle /\ CompareIdle /\ CoercionIdle /\ HomeIdle

Init ==
    /\ fileContent \in Files
    /\ findings \in FindingArrays
    /\ results = << >>
    /\ results2 = << >>
    /\ pc = "received"
    /\ DisplayIdle /\ MetricsIdle /\ RouteIdle /\ RestIdle

\* normalizeFindings(file.content, validated.findings): the array of the
\* re-anchored findings, or nothing when a call raises
Normalize ==
    /\ pc = "received"
    /\ IF \E i \in 1..Len(findings) : Throws(fileContent, findings[i])
       THEN /\ pc' = "threw"
            /\ results' = results
       ELSE /\ pc' = "normalized"
            /\ results' = normalizeFindings(fileContent, findings)
    /\ UNCHANGED <<fileContent, findings, results2, displayVars, metricsVars, routeVars, restVars>>

\* normalizeFindings run on its own output (the page re-anchors the findings
\* the endpoint already re-anchored)
Renormalize ==
    /\ pc = "normalized"
    /\ IF \E i \in 1..Len(results) : Throws(fileContent, results[i])
       THEN /\ pc' = "threw"
            /\ results2' = results2
       ELSE /\ pc' = "renormalized"
            /\ results2' = normalizeFindings(fileContent, results)
    /\ UNCHANGED <<fileContent, findings, results, displayVars, metricsVars, routeVars, restVars>>

Next == Normalize \/ Renormalize

Spec == Init /\ [][Next]_vars

---------------------------------------------------------------------------
(* Vocabulary of the properties *)

FileLines == SplitLines(fileContent)

\* normalizeFindings has returned
Returned == pc \in {"normalized", "renormalized"}

\* the three searches of the engine, for the snippet of a finding
ExactMatch(finding) ==
    \/ findLinesByDirectMatch(ReplaceCRLF(fileContent), finding.evidence.snippet) # << >>
    \/ findLinesByDirectMatch(ReplaceCRLF(fileContent), Trim(finding.evidence.snippet)) # << >>

LooseMatch(finding) ==
    collectSnippetCandidates(FileLines, SplitLines(Trim(finding.evidence.snippet))) # << >>

HasHint(finding) == getExpectedLine(finding) # << >>

\* evidence.lines is empty and no fix.patch entry has a numeric line
NoHint(finding) ==
    /\ finding.evidence.lines = << >>
    /\ \A k \in 1..Len(finding.fix.patch) : finding.fix.patch[k].line = << >>

\* s, s+1, ..., s+n-1
Consecutive(s, n) == [i \in 1..n |-> s + i - 1]

---------------------------------------------------------------------------
(* Properties of the re-anchoring engine *)

\* C1 (line validity): every finding normalizeFindingLines returns has
\* evidence.lines empty or made only of line numbers of the file, 1 <= n <=
\* number of lines.  The engine does not keep this: see the return paths
\* "fallback", "hintOnly" and "noSnippet".
C1_LineValidity ==
    Returned =>
        \A i \in 1..Len(results) :
            \A k \in 1..Len(results[i].evidence.lines) :
                results[i].evidence.lines[k] \in 1..Len(FileLines)

\* C2 as claimed: a (non-empty) snippet that is exactly the text of a file
\* line occurring only at line k is re-anchored to [k], whatever the hints.
C2_ExactLineAsClaimed ==
    Returned =>
        \A i \in 1..Len(results) :
            \A k \in 1..Len(FileLines) :
                ( /\ findings[i].evidence.snippet # << >>
                  /\ findings[i].evidence.snippet = FileLines[k]
                  /\ \A m \in 1..Len(FileLines) : m # k => FileLines[m] # FileLines[k] )
                => results[i].evidence.lines = <<k>>

\* C2 (exact match precedence, amended): a non-empty snippet that is exactly
\* the text of file line k and is contained in no earlier line is re-anchored
\* to [k] through the exact match, whatever evidence.lines and fix.patch say.
C2_ExactMatchPrecedence ==
    Returned =>
        \A i \in 1..Len(results) :
            \A k \in 1..Len(FileLines) :
                ( /\ findings[i].evidence.snippet # << >>
                  /\ findings[i].evidence.snippet = FileLines[k]
                  /\ \A m \in 1..(k - 1) : ~Includes(FileLines[m], FileLines[k]) )
                => /\ results[i].evidence.lines = <<k>>
                   /\ Reanchor(fileContent, findings[i]).path = "direct"

\* an exact match at a line other than the first, against a hint that names
\* another line or no line of the file
C2_Witness ==
    /\ Returned
    /\ \E i \in 1..Len(results) :
          /\ findings[i].evidence.snippet # << >>
          /\ Len(FileLines) >= 2
          /\ findings[i].evidence.snippet = FileLines[2]
          /\ ~Includes(FileLines[1], FileLines[2])
          /\ findings[i].evidence.lines = <<MaxHint>>
          /\ results[i].evidence.lines = <<2>>

\* C3 (idempotence): re-anchoring the output of the engine changes nothing.
\* The engine does not keep this when it backfilled the snippet.
C3_Idempotence ==
    pc = "renormalized" => results2 = results

\* C4 (failure leaves the lines alone): a non-empty snippet that no search
\* locates leaves evidence.lines as given, or empty.
C4_FailureLeavesLines ==
    Returned =>
        \A i \in 1..Len(results) :
            ( /\ Trim(findings[i].evidence.snippet) # << >>
              /\ ~ExactMatch(findings[i])
              /\ ~LooseMatch(findings[i]) )
            => results[i].evidence.lines \in { findings[i].evidence.lines, << >> }


\* C5 (no silent default): a finding without any line hint whose snippet is
\* empty, or is found by none of the exact, window and signature searches,
\* is returned as it came: evidence.lines still empty, snippet as given.
C5_NoSilentDefault ==
    Returned =>
        \A i \in 1..Len(results) :
            ( /\ NoHint(findings[i])
              /\ \/ findings[i].evidence.snippet = << >>
                 \/ ~ExactMatch(findings[i]) /\ ~LooseMatch(findings[i]) )
            => results[i] = findings[i]

\* a snippet with text, in a file with text, that nothing locates and that
\* carries no hint
C5_Witness ==
    /\ Returned
    /\ \E i \in 1..Len(results) :
          /\ NoHint(findings[i])
          /\ Trim(findings[i].evidence.snippet) # << >>
          /\ Trim(fileContent) # << >>
          /\ ~ExactMatch(findings[i]) /\ ~LooseMatch(findings[i])
          /\ results[i].evidence.lines = << >>

\* C6 (totality): no call raises, and normalizeFindings returns one finding
\* per finding it was given.
C6_Totality ==
    /\ pc # "threw"
    /\ Returned => Len(results) = Len(findings)
    /\ pc = "renormalized" => Len(results2) = Len(results)

\* the window loop compared a multi-line snippet against the last lines of a
\* file with mixed line endings, for a finding whose line number is negative
C6_Witness ==
    /\ Returned
    /\ Includes(fileContent, <<CR, LF>>)
    /\ \E i \in 1..Len(results) :
          LET meaningful == Meaningful(SplitLines(Trim(findings[i].evidence.snippet)))
          IN  /\ Len(meaningful) = 2
              /\ Len(FileLines) = 3
              /\ includesLoosely(FileLines[2], meaningful[1])
              /\ includesLoosely(FileLines[3], meaningful[2])
              /\ findings[i].evidence.lines = <<0 - 1>>
              /\ Reanchor(fileContent, findings[i]).path = "candidate"
              /\ results[i].evidence.lines = <<2, 3>>

\* the file lines numbered by `lines`, a number outside the file reading as ""
LinesText(lines) == JoinLF([k \in 1..Len(lines) |-> LineOrEmpty(FileLines, lines[k] - 1)])

\* the file line the hint of the finding names, "" outside the file
HintText(finding) ==
    IF HasHint(finding) THEN { LineOrEmpty(FileLines, getExpectedLine(finding)[1] - 1) } ELSE {}

\* C7 as claimed: the returned snippet is the input snippet, or the file lines
\* named by the input evidence.lines joined by newline, or the file line the
\* hint names.
C7_SnippetAsClaimed ==
    Returned =>
        \A i \in 1..Len(results) :
            results[i].evidence.snippet \in
                { findings[i].evidence.snippet, LinesText(findings[i].evidence.lines) }
                    \cup HintText(findings[i])

\* C7 (no fabricated snippet, amended): the returned snippet is the input
\* snippet, or the file lines named by the input evidence.lines joined by
\* newline and trimmed of surrounding whitespace, or the file line the hint
\* names (the empty string when it names none).
C7_NoFabricatedSnippet ==
    Returned =>
        \A i \in 1..Len(results) :
            results[i].evidence.snippet \in
                { findings[i].evidence.snippet, Trim(LinesText(findings[i].evidence.lines)) }
                    \cup HintText(findings[i])

\* a snippet backfilled from evidence.lines whose text had to be trimmed
C7_Witness ==
    /\ Returned
    /\ \E i \in 1..Len(results) :
          /\ results[i].evidence.snippet # findings[i].evidence.snippet
          /\ results[i].evidence.snippet = Trim(LinesText(findings[i].evidence.lines))
          /\ results[i].evidence.snippet # LinesText(findings[i].evidence.lines)
          /\ results[i].evidence.snippet \notin HintText(findings[i])

\* everything of a finding but evidence.lines and evidence.snippet
Opaque(finding) ==
    <<finding.id, finding.severity, finding.confidence, finding.cwe, finding.owasp,
      finding.explanation, finding.fix>>

\* C8 as claimed: the input is not mutated, only evidence.lines and
\* evidence.snippet may differ, and the snippet differs only when the input
\* snippet was empty.
C8_FrameAsClaimed ==
    [][ (pc = "received" /\ pc' = "normalized") =>
            /\ findings' = findings
            /\ \A i \in 1..Len(findings) :
                  /\ Opaque(results'[i]) = Opaque(findings[i])
                  /\ results'[i].evidence.snippet # findings[i].evidence.snippet
                        => findings[i].evidence.snippet = << >> ]_vars

\* C8 (frame, amended): the input is not mutated, only evidence.lines and
\* evidence.snippet may differ, and the snippet differs only when the input
\* snippet was empty or made of whitespace only.
C8_Frame ==
    [][ (pc = "received" /\ pc' = "normalized") =>
            /\ findings' = findings
            /\ \A i \in 1..Len(findings) :
                  /\ Opaque(results'[i]) = Opaque(findings[i])
                  /\ DOMAIN results'[i] = DOMAIN findings[i]
                  /\ DOMAIN results'[i].evidence = DOMAIN findings[i].evidence
                  /\ results'[i].evidence.snippet # findings[i].evidence.snippet
                        => Trim(findings[i].evidence.snippet) = << >> ]_vars

\* a finding with a patch hint whose whitespace-only snippet was replaced by
\* text of the file and whose lines were rewritten
C8_Witness ==
    /\ Returned
    /\ \E i \in 1..Len(results) :
          /\ findings[i].evidence.snippet # << >>
          /\ results[i].evidence.snippet \notin { << >>, findings[i].evidence.snippet }
          /\ results[i].evidence.lines # findings[i].evidence.lines
          /\ findings[i].fix.patch # << >>

\* the offsets at which the non-blank snippet lines loosely match consecutive
\* file lines, in order
WindowPlaces(meaningful) ==
    { s \in 0..(Len(FileLines) - Len(meaningful)) :
        \A j \in 1..Len(meaningful) : includesLoosely(FileLines[s + j], meaningful[j]) }

\* C10 (multi-line contiguity): a snippet of n >= 2 non-blank lines whose only
\* loose match on n consecutive file lines starts at line s is re-anchored to
\* [s, ..., s+n-1], whatever evidence.lines said.  The engine does not keep
\* this when the snippet as delivered occurs verbatim with its blank lines.
C10_MultiLineContiguity ==
    Returned =>
        \A i \in 1..Len(results) :
            LET meaningful == Meaningful(SplitLines(Trim(findings[i].evidence.snippet)))
                places == WindowPlaces(meaningful)
            IN  (Len(meaningful) >= 2 /\ Cardinality(places) = 1)
                => results[i].evidence.lines = Consecutive(Min(places) + 1, Len(meaningful))

---------------------------------------------------------------------------

\* the hint as the specification words it: evidence.lines[0] if present,
\* otherwise the first numeric fix.patch[].line
FirstHint(finding) ==
    LET patch == finding.fix.patch
        numeric == { k \in 1..Len(patch) : patch[k].line # << >> }
    IN  IF finding.evidence.lines # << >> THEN <<finding.evidence.lines[1]>>
        ELSE IF numeric = {} THEN << >>
        ELSE patch[Min(numeric)].line

\* the 1-based start lines the window or signature search yields for the
\* snippet the call searched for
CandidateStarts(i) ==
    LET cands == collectSnippetCandidates(FileLines,
                     SplitLines(Trim(results[i].evidence.snippet)))
    IN  { cands[k] + 1 : k \in 1..Len(cands) }

\* C11: when the window or signature search yields several candidate start
\* lines, the returned range starts at a candidate that no other candidate
\* beats in distance to the hint, and at the lowest candidate without a hint.
C11_ClosestToHint ==
    Returned =>
        \A i \in 1..Len(findings) :
            LET starts == CandidateStarts(i)
                hint == FirstHint(findings[i])
                s == results[i].evidence.lines[1]
            IN  ( /\ Reanchor(fileContent, findings[i]).path = "candidate"
                  /\ Cardinality(starts) >= 2 )
                => /\ results[i].evidence.lines # << >>
                   /\ s \in starts
                   /\ IF hint = << >> THEN s = Min(starts)
                      ELSE \A c \in starts : Abs(s - hint[1]) <= Abs(c - hint[1])

\* candidates at lines 1 and 3, the hint MaxHint: the later one is chosen
C11_Witness ==
    /\ Returned
    /\ \E i \in 1..Len(findings) :
          /\ Reanchor(fileContent, findings[i]).path = "candidate"
          /\ {1, 3} \subseteq CandidateStarts(i)
          /\ FirstHint(findings[i]) = <<MaxHint>>
          /\ results[i].evidence.lines = <<3>>

\* C18: whenever the trimmed snippet occurs verbatim in the file (after
\* \r\n -> \n), the returned lines are the contiguous range that starts at
\* 1 + the number of line breaks before the first match of the trimmed
\* snippet and has as many lines as the trimmed snippet, whatever blank lines
\* or whitespace surround the snippet as delivered.
C18_ExactRange ==
    Returned =>
        \A i \in 1..Len(findings) :
            LET file == ReplaceCRLF(fileContent)
                t == ReplaceCRLF(Trim(findings[i].evidence.snippet))
                idx == IndexOf(file, t)
                breaks == { k \in 1..idx : file[k] = LF }
            IN  (t # << >> /\ idx # 0 - 1)
                => results[i].evidence.lines =
                       Consecutive(1 + Cardinality(breaks), Len(SplitLF(t)))

\* every number of `lines` is a line of the file
ValidLines(lines) == \A k \in 1..Len(lines) : lines[k] \in 1..Len(FileLines)

\* C19: with an empty snippet and evidence.lines holding valid line numbers,
\* the returned evidence.lines are the given ones and the returned snippet is
\* the text of those lines joined by newline (up to surrounding whitespace).
C19_TrustsGivenLines ==
    Returned =>
        \A i \in 1..Len(findings) :
            ( /\ findings[i].evidence.snippet = << >>
              /\ findings[i].evidence.lines # << >>
              /\ ValidLines(findings[i].evidence.lines) )
            => /\ results[i].evidence.lines = findings[i].evidence.lines
               /\ Trim(results[i].evidence.snippet)
                      = Trim(LinesText(findings[i].evidence.lines))

\* the numeric lines the fix.patch entries of a finding carry
PatchLines(finding) ==
    { finding.fix.patch[k].line[1] :
        k \in { j \in 1..Len(finding.fix.patch) : finding.fix.patch[j].line # << >> } }

\* C20 as claimed: with an empty snippet, empty evidence.lines and a
\* fix.patch entry carrying line h, the call returns lines = [h] and the text
\* of file line h as snippet.
C20_PatchHintAsClaimed ==
    Returned =>
        \A i \in 1..Len(findings) :
            ( /\ findings[i].evidence.snippet = << >>
              /\ findings[i].evidence.lines = << >>
              /\ PatchLines(findings[i]) # {} )
            => \E h \in PatchLines(findings[i]) :
                  /\ results[i].evidence.lines = <<h>>
                  /\ results[i].evidence.snippet = LineOrEmpty(FileLines, h - 1)

\* C20: with an empty snippet and empty evidence.lines, h being the first
\* numeric fix.patch[].line: if h > 0 the call returns lines = [h] and as
\* snippet the text of file line h ("" when the file has no line h), through
\* the return that precedes the searches; if h <= 0 it returns the finding
\* as it is.
C20_PatchHintFallback ==
    Returned =>
        \A i \in 1..Len(findings) :
            LET hint == FirstHint(findings[i])
            IN  ( /\ findings[i].evidence.snippet = << >>
                  /\ findings[i].evidence.lines = << >>
                  /\ hint # << >> )
                => IF hint[1] > 0
                   THEN /\ results[i].evidence.lines = hint
                        /\ results[i].evidence.snippet = LineOrEmpty(FileLines, hint[1] - 1)
                        /\ Reanchor(fileContent, findings[i]).path = "hintOnly"
                   ELSE results[i] = findings[i]

\* the second fix.patch entry names line 2, whose text has a leading space
C20_Witness ==
    /\ Returned
    /\ \E i \in 1..Len(findings) :
          /\ findings[i].evidence.snippet = << >>
          /\ findings[i].evidence.lines = << >>
          /\ findings[i].fix.patch = <<[line |-> << >>], [line |-> <<2>>]>>
          /\ results[i].evidence.lines = <<2>>
          /\ results[i].evidence.snippet = <<SP, "a">>

---------------------------------------------------------------------------
(* The line-to-finding index and the highlight extractor *)

\* Bounds of the display inputs
MaxDisplayLines == 2
MaxDisplaySnippetLines == 2
MaxLineNumber == 3

\* a value that is null in the source, and one that is not
Null == << >>
Some(v) == <<v>>

\* severityUnderline with High underlined as Medium
severityUnderline_highAsMedium(sev) ==
    CASE sev = "Critical" -> "underline-high"
      [] sev \in {"High", "Medium"} -> "underline-medium"
      [] OTHER -> "underline-low"

severityUnderline(sev) ==
    CASE sev \in {"Critical", "High"} -> "underline-high"
      [] sev = "Medium" -> "underline-medium"
      [] OTHER -> "underline-low"

\* SelectSegment without the choice by position
SelectSegment_scanOnly(text, f, n) ==
    LET snippetLines == SplitLines(Trim(f.evidence.snippet))
        hits == { k \in 1..Len(snippetLines) :
                    /\ Trim(snippetLines[k]) # << >>
                    /\ Includes(text, Trim(snippetLines[k])) }
    IN  IF hits = {} THEN << >> ELSE Trim(snippetLines[Min(hits)])

\* the segment computeHighlightForLine selects: the snippet line at the
\* position the line number has in evidence.lines, else the first snippet
\* line found in the line text; << >> when it is null or empty
SelectSegment(text, f, n) ==
    LET snippetLines == SplitLines(Trim(f.evidence.snippet))
        linesArr == f.evidence.lines
        at == { k \in 1..Len(linesArr) : linesArr[k] = n }
        hits == { k \in 1..Len(snippetLines) :
                    /\ Trim(snippetLines[k]) # << >>
                    /\ Includes(text, Trim(snippetLines[k])) }
    IN  IF Len(linesArr) = Len(snippetLines) /\ at # {}
        THEN Trim(snippetLines[Min(at)])
        ELSE IF hits = {} THEN << >> ELSE Trim(snippetLines[Min(hits)])

\* computeHighlightForLine with `after` taken one character late
computeHighlightForLine_afterLate(text, f, n) ==
    LET underlineClass == severityUnderline(f.severity)
        snippet == Trim(f.evidence.snippet)
        segment == SelectSegment(text, f, n)
        idx == IndexOf(text, segment)
    IN  IF snippet = << >>
        THEN [before |-> text, match |-> Null, after |-> << >>, underlineClass |-> Null]
        ELSE IF segment = << >> \/ idx = 0 - 1
        THEN [before |-> << >>, match |-> Some(text), after |-> << >>,
              underlineClass |-> Some(underlineClass)]
        ELSE [before |-> SubSeq(text, 1, idx),
              match |-> Some(SubSeq(text, idx + 1, idx + Len(segment))),
              after |-> SliceFrom(text, idx + Len(segment) + 1),
              underlineClass |-> Some(underlineClass)]

computeHighlightForLine(text, f, n) ==
    LET underlineClass == severityUnderline(f.severity)
        snippet == Trim(f.evidence.snippet)
        segment == SelectSegment(text, f, n)
        idx == IndexOf(text, segment)
    IN  IF snippet = << >>
        THEN [before |-> text, match |-> Null, after |-> << >>, underlineClass |-> Null]
        ELSE IF segment = << >> \/ idx = 0 - 1
        THEN [before |-> << >>, match |-> Some(text), after |-> << >>,
              underlineClass |-> Some(underlineClass)]
        ELSE [before |-> SubSeq(text, 1, idx),
              match |-> Some(SubSeq(text, idx + 1, idx + Len(segment))),
              after |-> SliceFrom(text, idx + Len(segment)),
              underlineClass |-> Some(underlineClass)]

\* SnippetLineApplies without the minimum length
SnippetLineApplies_anyLength(trimmed, rawLine) == Includes(rawLine, trimmed)

\* trimmed.length >= 2 && rawLine.includes(trimmed)
SnippetLineApplies(trimmed, rawLine) == Len(trimmed) >= 2 /\ Includes(rawLine, trimmed)

findingsForLine(data, content, n) ==
    LET lines == SplitLines(content)
        rawLine == LineOrEmpty(lines, n - 1)
        keep(f) ==
            LET linesArr == f.evidence.lines
                snippet == Trim(f.evidence.snippet)
                snippetLines == SplitLines(snippet)
            IN  IF Len(linesArr) > 0 THEN \E k \in 1..Len(linesArr) : linesArr[k] = n
                ELSE IF snippet = << >> THEN FALSE
                ELSE \E k \in 1..Len(snippetLines) :
                        SnippetLineApplies(Trim(snippetLines[k]), rawLine)
    IN  IF data = Null THEN << >> ELSE SelectSeq(data[1].findings, keep)

\* the display inputs: lines of up to three characters
DisplayLineTexts == { << >>, <<"a">>, <<"a", "b">>, <<SP, "a", "b">> }

DisplaySnippetLines == { << >>, <<"a">>, <<"b">>, <<"a", "b">>, <<SP, "a", "b">> }

RECURSIVE DisplayFilesOf(_)
DisplayFilesOf(n) ==
    IF n = 1 THEN DisplayLineTexts
    ELSE { f \o br \o t : f \in DisplayFilesOf(n - 1), br \in LineBreaks, t \in DisplayLineTexts }

DisplayFiles == UNION { DisplayFilesOf(n) : n \in 1..MaxDisplayLines }

DisplaySnippets ==
    UNION { { JoinLF(ls) : ls \in [1..n -> DisplaySnippetLines] } :
              n \in 1..MaxDisplaySnippetLines }

DisplayLines == { << >>, <<1>>, <<2>>, <<1, 2>>, <<2, 1>>, <<MaxLineNumber>> }

Severities == { "Low", "Medium", "High", "Critical" }

DisplayFinding(sev, snippet, lines) ==
    [Finding(snippet, lines, << >>) EXCEPT !.severity = sev]

DisplayFindings == { DisplayFinding("High", s, l) : s \in DisplaySnippets, l \in DisplayLines }

DisplayCompanions ==
    { DisplayFinding("Low", <<"a", "b">>, << >>),
      DisplayFinding("Low", <<"a">>, <<1>>),
      DisplayFinding("Low", << >>, <<2>>) }

ApiDatas ==
    { Null, Some([ok |-> TRUE, findings |-> << >>]) }
      \cup { Some([ok |-> TRUE, findings |-> <<f>>]) : f \in DisplayFindings }
      \cup { Some([ok |-> TRUE, findings |-> <<c, f>>]) :
                c \in DisplayCompanions, f \in DisplayFindings }
      \cup { Some([ok |-> TRUE, findings |-> <<f, c>>]) :
                c \in DisplayCompanions, f \in DisplayFindings }

HighlightFindings ==
    { DisplayFinding(sev, s, l) : sev \in Severities, s \in DisplaySnippets, l \in DisplayLines }

HighlightLineTexts == DisplayLineTexts \cup { <<"b", "a", "b">> }

\* the page holds a response and a file, and asks for the findings of a line
InitIndex ==
    /\ apiData \in ApiDatas
    /\ fileContent \in DisplayFiles
    /\ lineNumber = 0
    /\ lineFindings = << >>
    /\ lineText = << >>
    /\ lineFinding = << >>
    /\ highlight = << >>
    /\ findings = << >> /\ results = << >> /\ results2 = << >>
    /\ pc = "loaded"
    /\ MetricsIdle /\ RouteIdle /\ RestIdle

FindingsForLine ==
    /\ pc = "loaded"
    /\ \E n \in 0..MaxLineNumber :
          /\ lineNumber' = n
          /\ lineFindings' = findingsForLine(apiData, fileContent, n)
    /\ pc' = "indexed"
    /\ UNCHANGED <<engineVars, apiData, lineText, lineFinding, highlight, metricsVars, routeVars, restVars>>

NextIndex == FindingsForLine

SpecIndex == InitIndex /\ [][NextIndex]_vars

\* a line of the code view is rendered for one finding
InitHighlight ==
    /\ lineFinding \in HighlightFindings
    /\ lineText = << >>
    /\ lineNumber = 0
    /\ highlight = << >>
    /\ apiData = << >>
    /\ lineFindings = << >>
    /\ EngineIdle
    /\ pc = "rendering"
    /\ MetricsIdle /\ RouteIdle /\ RestIdle

ComputeHighlight ==
    /\ pc = "rendering"
    /\ \E text \in HighlightLineTexts, n \in 0..MaxLineNumber :
          /\ lineText' = text
          /\ lineNumber' = n
          /\ highlight' = computeHighlightForLine(text, lineFinding, n)
    /\ pc' = "highlighted"
    /\ UNCHANGED <<engineVars, apiData, lineFindings, lineFinding, metricsVars, routeVars, restVars>>

NextHighlight == ComputeHighlight

SpecHighlight == InitHighlight /\ [][NextHighlight]_vars

---------------------------------------------------------------------------
(* Properties of the index and of the highlight extractor *)

\* the findings findingsForLine is given
InputFindings == IF apiData = Null THEN << >> ELSE apiData[1].findings

\* the elements of a sequence of numbers
Range(seq) == { seq[k] : k \in 1..Len(seq) }

\* a finding applies to the line asked for, as the contract words it
Applies(f) ==
    IF f.evidence.lines # << >> THEN lineNumber \in Range(f.evidence.lines)
    ELSE /\ lineNumber \in 1..Len(FileLines)
         /\ \E line \in Range(SplitLines(Trim(f.evidence.snippet))) :
               /\ Len(Trim(line)) >= 2
               /\ Includes(FileLines[lineNumber], Trim(line))

\* the k-th smallest element of a set of numbers
Nth(S, k) == CHOOSE i \in S : Cardinality({ j \in S : j <= i }) = k

\* C12: findingsForLine returns exactly the findings of its input that apply
\* to the line asked for, in the order of the input: with evidence.lines a
\* finding applies iff they contain the line number; without, iff a line of
\* its trimmed snippet, trimmed and of 2 characters or more, is a substring
\* of that file line.
C12_FindingsOfLine ==
    pc = "indexed" =>
        LET applying == { i \in 1..Len(InputFindings) : Applies(InputFindings[i]) }
        IN  /\ Len(lineFindings) = Cardinality(applying)
            /\ \A k \in 1..Len(lineFindings) :
                  lineFindings[k] = InputFindings[Nth(applying, k)]

\* of two findings only the second applies, by a line of its snippet
C12_Witness ==
    /\ pc = "indexed"
    /\ Len(InputFindings) = 2
    /\ InputFindings[1].evidence.lines # << >>
    /\ InputFindings[2].evidence.lines = << >>
    /\ InputFindings[2].evidence.snippet # <<"a", "b">>
    /\ lineNumber = 2
    /\ lineFindings = <<InputFindings[2]>>

\* the parts of the highlight contract
SnippetText == Trim(lineFinding.evidence.snippet)
Positional ==
    /\ Len(lineFinding.evidence.lines) = Len(SplitLines(SnippetText))
    /\ lineNumber \in Range(lineFinding.evidence.lines)
Position == Min({ k \in 1..Len(lineFinding.evidence.lines) :
                    lineFinding.evidence.lines[k] = lineNumber })
Unstyled == [before |-> lineText, match |-> Null, after |-> << >>, underlineClass |-> Null]
WholeLineMatch ==
    /\ highlight.before = << >>
    /\ highlight.match = Some(lineText)
    /\ highlight.after = << >>

\* C13 as claimed: the segment is the snippet line at the position of the
\* line number, else the first snippet line that is a substring of the line
\* text; a selected segment is the match text, or the whole line is the
\* match when the segment is not a substring of it.
C13_SegmentAsClaimed ==
    pc = "highlighted" =>
        LET snippetLines == SplitLines(SnippetText)
            hits == { k \in 1..Len(snippetLines) : Includes(lineText, snippetLines[k]) }
            segment == IF Positional THEN snippetLines[Position]
                       ELSE snippetLines[Min(hits)]
        IN  IF SnippetText = << >> THEN highlight = Unstyled
            ELSE (Positional \/ hits # {})
                 => IF Includes(lineText, segment) THEN highlight.match = Some(segment)
                    ELSE WholeLineMatch

\* C13: the segment is the trimmed snippet line at the position of the line
\* number, else the first non-blank snippet line that, trimmed, is a
\* substring of the line text.  A non-empty segment found in the line text
\* splits the line at its first occurrence; an empty or absent segment, or
\* one that is not a substring, gives the whole line as match; no snippet
\* text gives the whole line as `before`, unstyled.
C13_SegmentSelection ==
    pc = "highlighted" =>
        LET snippetLines == SplitLines(SnippetText)
            hits == { k \in 1..Len(snippetLines) :
                        /\ Trim(snippetLines[k]) # << >>
                        /\ Includes(lineText, Trim(snippetLines[k])) }
            segment == IF Positional THEN Trim(snippetLines[Position])
                       ELSE IF hits = {} THEN << >>
                       ELSE Trim(snippetLines[Min(hits)])
        IN  IF SnippetText = << >> THEN highlight = Unstyled
            ELSE IF segment # << >> /\ Includes(lineText, segment)
            THEN /\ highlight.match = Some(segment)
                 /\ highlight.before = SubSeq(lineText, 1, IndexOf(lineText, segment))
                 /\ highlight.before \o segment \o highlight.after = lineText
            ELSE WholeLineMatch

\* the line number selects the second snippet line although the first one
\* occurs in the line text as well
C13_Witness ==
    /\ pc = "highlighted"
    /\ lineFinding.evidence.snippet = <<"a", "b", LF, "a">>
    /\ lineFinding.evidence.lines = <<1, 2>>
    /\ lineNumber = 2
    /\ lineText = <<"a", "b">>
    /\ highlight.match = Some(<<"a">>)
    /\ highlight.after = <<"b">>

\* C14: for a finding with snippet text the underline class is given by the
\* severity alone, one class for Critical and High, a second for Medium and
\* a third for Low, whether or not a segment was found.
C14_StyleBySeverity ==
    pc = "highlighted" =>
        (SnippetText # << >>
         => highlight.underlineClass =
              Some(CASE lineFinding.severity \in {"Critical", "High"} -> "underline-high"
                     [] lineFinding.severity = "Medium" -> "underline-medium"
                     [] lineFinding.severity = "Low" -> "underline-low"))

\* a High finding whose snippet is not found in the line keeps its class
C14_Witness ==
    /\ pc = "highlighted"
    /\ lineFinding.severity = "High"
    /\ SnippetText = <<"b">>
    /\ lineText = <<"a">>
    /\ highlight.match = Some(lineText)
    /\ highlight.underlineClass = Some("underline-high")

---------------------------------------------------------------------------
(* The evaluation harness: scoreFindings of the metrics script *)

\* the longest array of predictions and of expected findings
MaxScored == 2

\* hasLineOverlap(a?, b?): an absent array is Null
hasLineOverlap(a, b) ==
    IF a = Null \/ b = Null THEN TRUE
    ELSE IF Len(a[1]) = 0 \/ Len(b[1]) = 0 THEN TRUE
    ELSE \E k \in 1..Len(a[1]) : \E m \in 1..Len(b[1]) : a[1][k] = b[1][m]

\* the loop over the expected findings, from the j-th on: the indices of the
\* predictions matched so far and the expected findings found missing
RECURSIVE ScoreLoop(_, _, _, _, _)
ScoreLoop(preds, exps, j, matched, missing) ==
    IF j > Len(exps) THEN [matchedPredictionIdx |-> matched, missing |-> missing]
    ELSE LET exp == exps[j]
             found == { i \in 1..Len(preds) :
                          /\ i \notin matched
                          /\ preds[i].id = exp.id
                          /\ hasLineOverlap(Some(preds[i].evidence.lines), exp.lines) }
         IN  IF found # {}
             THEN ScoreLoop(preds, exps, j + 1, matched \cup {Min(found)}, missing)
             ELSE ScoreLoop(preds, exps, j + 1, matched, Append(missing, exp))

scoreFindings(preds, exps) ==
    LET loop == ScoreLoop(preds, exps, 1, {}, << >>)
        unmatched == { i \in 1..Len(preds) : i \notin loop.matchedPredictionIdx }
        extras == [k \in 1..Cardinality(unmatched) |->
                     preds[CHOOSE i \in unmatched :
                             Cardinality({ j \in unmatched : j <= i }) = k]]
    IN  [tp |-> Len(exps) - Len(loop.missing),
         fn |-> Len(loop.missing),
         fp |-> Len(extras),
         matchedPredictionIdx |-> loop.matchedPredictionIdx,
         missing |-> loop.missing,
         extras |-> extras]

\* the predictions and the fixtures of the model
FindingIds == { "A", "B" }

PredictedLines == { << >>, <<1>>, <<1, 2>>, <<3>> }

ExpectedLines == { Null, Some(<< >>), Some(<<1>>), Some(<<2, 3>>) }

Predictions == { [id |-> i, evidence |-> [lines |-> l]] : i \in FindingIds, l \in PredictedLines }

FixtureFindings == { [id |-> i, lines |-> l] : i \in FindingIds, l \in ExpectedLines }

ArraysOf(S) == UNION { [1..n -> S] : n \in 0..MaxScored }

\* runFixture holds the validated findings of the response and the fixture
InitMetrics ==
    /\ predictions \in ArraysOf(Predictions)
    /\ expected \in ArraysOf(FixtureFindings)
    /\ score = << >>
    /\ pc = "validated"
    /\ EngineIdle /\ DisplayIdle /\ RouteIdle /\ RestIdle

ScoreFindings ==
    /\ pc = "validated"
    /\ score' = scoreFindings(predictions, expected)
    /\ pc' = "scored"
    /\ UNCHANGED <<engineVars, displayVars, predictions, expected, routeVars, restVars>>

NextMetrics == ScoreFindings

SpecMetrics == InitMetrics /\ [][NextMetrics]_vars

\* a prediction and an expected finding match, as the claim words it: the
\* same id, and a shared line number or two empty line sets
ClaimedMatch(p, e) ==
    LET a == Range(p.evidence.lines)
        b == IF e.lines = Null THEN {} ELSE Range(e.lines[1])
    IN  /\ p.id = e.id
        /\ \/ a \cap b # {}
           \/ a = {} /\ b = {}

\* C15: a prediction matches an expected finding of the same id iff their
\* line sets share a line number or are both empty: one prediction and one
\* expected finding score a true positive exactly then, and no true positive
\* is scored without such a pair.
C15_OverlapAsClaimed ==
    pc = "scored" =>
        /\ (Len(predictions) = 1 /\ Len(expected) = 1)
           => (score.tp = 1 <=> ClaimedMatch(predictions[1], expected[1]))
        /\ score.tp > 0
           => \E i \in 1..Len(predictions) : \E j \in 1..Len(expected) :
                 ClaimedMatch(predictions[i], expected[j])

---------------------------------------------------------------------------
(* The endpoints: POST /api/GPT and POST /api/Claude *)

\* the values a handler can catch
AnalysisError(message, status) ==
    [class |-> "AnalysisError", message |-> message, status |-> status]
Error(message) == [class |-> "Error", message |-> message, status |-> 0]
NonError == [class |-> "none", message |-> "", status |-> 0]

\* what JavaScript raises on Object.keys(null) and on undefined.language
KeysOfNull == Error("Cannot convert undefined or null to object")
LanguageOfUndefined == Error("Cannot read properties of undefined (reading 'language')")

Returns(result) == [threw |-> FALSE, err |-> NonError, result |-> result]
Raises(err) == [threw |-> TRUE, err |-> err, result |-> << >>]

\* the source content the handlers re-anchor against
ContentOf(file) == IF file.content = Null THEN << >> ELSE file.content[1]

\* analyzeWithGPT(file) of a file that is present, the model behind it
\* behaving as `up` says
analyzeWithGPT(file, up) ==
    IF file.content = Null THEN Raises(AnalysisError("Invalid file payload.", 400))
    ELSE IF up.kind = "rejects" THEN Raises(Error(up.message))
    ELSE IF up.kind = "rejectsNonError" THEN Raises(NonError)
    ELSE IF up.kind = "noJson"
    THEN Raises(AnalysisError("Model did not return valid JSON.", 502))
    ELSE IF up.kind \in {"badJson", "badShape"} THEN Raises(Error(up.message))
    ELSE IF \E i \in 1..Len(up.findings) : Throws(ContentOf(file), up.findings[i])
    THEN Raises(Error("Cannot read properties of undefined (reading 'trim')"))
    ELSE Returns([findings |-> normalizeFindings(ContentOf(file), up.findings),
                  summary |-> [file |-> file.path]])

\* the catch block of POST /api/GPT with the status always 500
ErrorResponse_always500(err) ==
    [status |-> 500,
     body |-> [ok |-> FALSE,
               error |-> IF err.class = "none" THEN "Unknown error" ELSE err.message]]

\* the catch block of POST /api/GPT
ErrorResponse(err) ==
    [status |-> IF err.class = "AnalysisError" THEN err.status ELSE 500,
     body |-> [ok |-> FALSE,
               error |-> IF err.class = "none" THEN "Unknown error" ELSE err.message]]

\* the requests and the behaviours of the model
RouteContents ==
    { << >>, <<"a">>, <<"a", LF, "a">>, <<SP, "a", CR, LF, LF, "a">> }

RouteFiles ==
    { [path |-> "src/demo.ts", content |-> c] :
        c \in { Null } \cup { Some(t) : t \in RouteContents } }

Bodies == { Null, Some([file |-> Null]) } \cup { Some([file |-> Some(f)]) : f \in RouteFiles }

Requests == { [route |-> r, body |-> b] : r \in {"GPT", "Claude"}, b \in Bodies }

Upstreams ==
    { [kind |-> "findings", findings |-> fs, message |-> ""] :
        fs \in { << >> } \cup { <<f>> : f \in Companions } }
      \cup { [kind |-> "noJson", findings |-> << >>, message |-> ""],
             [kind |-> "badJson", findings |-> << >>,
              message |-> "Unexpected end of JSON input"],
             [kind |-> "badShape", findings |-> << >>, message |-> "Required"],
             [kind |-> "rejects", findings |-> << >>, message |-> "Connection error."],
             [kind |-> "rejectsNonError", findings |-> << >>, message |-> ""] }

InitRoute ==
    /\ request \in Requests
    /\ upstream \in Upstreams
    /\ analyzerCalls = 0
    /\ response = << >>
    /\ pc = "requested"
    /\ EngineIdle /\ DisplayIdle /\ MetricsIdle /\ RestIdle

\* POST /api/GPT
PostGPT ==
    /\ pc = "requested"
    /\ request.route = "GPT"
    /\ IF request.body = Null
       THEN /\ response' = ErrorResponse(KeysOfNull)
            /\ analyzerCalls' = analyzerCalls
       ELSE IF request.body[1].file = Null
       THEN /\ response' = ErrorResponse(AnalysisError("Missing file payload.", 400))
            /\ analyzerCalls' = analyzerCalls
       ELSE LET out == analyzeWithGPT(request.body[1].file[1], upstream)
            IN  /\ analyzerCalls' = analyzerCalls + 1
                /\ response' =
                     IF out.threw THEN ErrorResponse(out.err)
                     ELSE [status |-> 200,
                           body |-> [ok |-> TRUE,
                                     findings |-> out.result.findings,
                                     summary |-> out.result.summary]]
    /\ pc' = "responded"
    /\ UNCHANGED <<engineVars, displayVars, metricsVars, request, upstream, restVars>>

\* POST /api/Claude
PostClaude ==
    /\ pc = "requested"
    /\ request.route = "Claude"
    /\ LET caught(err) ==
               [status |-> 500,
                body |-> [ok |-> FALSE,
                          error |-> IF err.class = "none" THEN "Unknown error"
                                    ELSE err.message]]
           file == request.body[1].file[1]
           sourceContent == ContentOf(file)
       IN  response' =
             IF request.body = Null THEN caught(KeysOfNull)
             ELSE IF request.body[1].file = Null THEN caught(LanguageOfUndefined)
             ELSE IF upstream.kind = "rejects" THEN caught(Error(upstream.message))
             ELSE IF upstream.kind = "rejectsNonError" THEN caught(NonError)
             ELSE IF upstream.kind = "noJson"
             THEN [status |-> 502,
                   body |-> [ok |-> FALSE, error |-> "Model did not return valid JSON."]]
             ELSE IF upstream.kind \in {"badJson", "badShape"}
             THEN caught(Error(upstream.message))
             ELSE IF \E i \in 1..Len(upstream.findings) :
                       Throws(sourceContent, upstream.findings[i])
             THEN caught(Error("Cannot read properties of undefined (reading 'trim')"))
             ELSE [status |-> 200,
                   body |-> [ok |-> TRUE,
                             findings |-> normalizeFindings(sourceContent, upstream.findings),
                             summary |-> [file |-> file.path]]]
    /\ pc' = "responded"
    /\ UNCHANGED <<engineVars, displayVars, metricsVars, request, upstream, analyzerCalls, restVars>>

NextRoute == PostGPT \/ PostClaude

SpecRoute == InitRoute /\ [][NextRoute]_vars

\* the body of the request is an object without `file`
NoFile == request.body # Null /\ request.body[1].file = Null

MissingFilePayload == [status |-> 400, body |-> [ok |-> FALSE, error |-> "Missing file payload."]]

C17_ClaudeMissingFile ==
    (pc = "responded" /\ request.route = "Claude" /\ NoFile)
        => response = MissingFilePayload

---------------------------------------------------------------------------
(* The loose match of one file line and one snippet line *)

\* the longest line text of the loose-match inputs
MaxLooseLen == 3

LooseChars == { "a", "A", "b", SP }

LooseTexts == UNION { [1..n -> LooseChars] : n \in 0..MaxLooseLen }

\* the snippet lines collectSnippetCandidates hands over: trimmed, not empty
MeaningfulTexts == { Trim(t) : t \in LooseTexts } \ { << >> }

InitLoose ==
    /\ looseLine \in LooseTexts
    /\ looseSnippetLine \in MeaningfulTexts
    /\ looseResult = FALSE
    /\ searchLines = << >> /\ searchSnippet = << >> /\ searchResult = << >>
    /\ pc = "comparing"
    /\ EngineIdle /\ DisplayIdle /\ MetricsIdle /\ RouteIdle
    /\ RegistryIdle /\ CompareIdle /\ CoercionIdle /\ HomeIdle

IncludesLoosely ==
    /\ pc = "comparing"
    /\ looseResult' = includesLoosely(looseLine, looseSnippetLine)
    /\ pc' = "compared"
    /\ UNCHANGED <<engineVars, displayVars, metricsVars, routeVars,
                   looseLine, looseSnippetLine, searchLines, searchSnippet, searchResult,
                   registryVars, compareVars, coercionVars, homeVars>>

NextLoose == IncludesLoosely

SpecLoose == InitLoose /\ [][NextLoose]_vars

\* the canonical form of the contract: whitespace removed, lower-cased
RECURSIVE Canonical(_)
Canonical(s) ==
    IF s = << >> THEN << >>
    ELSE IF Head(s) \in {SP, "\t", LF, CR} THEN Canonical(Tail(s))
    ELSE <<(IF Head(s) = "A" THEN "a" ELSE IF Head(s) = "B" THEN "b" ELSE Head(s))>>
           \o Canonical(Tail(s))

\* the characters of `part` occur in `whole`, in the same order
RECURSIVE InSameSequence(_, _)
InSameSequence(part, whole) ==
    IF part = << >> THEN TRUE
    ELSE IF whole = << >> THEN FALSE
    ELSE IF Head(part) = Head(whole) THEN InSameSequence(Tail(part), Tail(whole))
    ELSE InSameSequence(part, Tail(whole))

\* C21: a file line loosely matches a snippet line iff the snippet line is a
\* literal substring of it or its canonical form contains the canonical form
\* of the snippet line; a match never lacks the non-whitespace characters of
\* the snippet line in their order.
C21_LooseMatch ==
    pc = "compared" =>
        /\ looseResult <=>
              \/ Includes(looseLine, looseSnippetLine)
              \/ Includes(Canonical(looseLine), Canonical(looseSnippetLine))
        /\ looseResult
              => InSameSequence(Canonical(looseSnippetLine), Canonical(looseLine))

\* a match by the canonical forms alone: other spacing, other case
C21_Witness ==
    /\ pc = "compared"
    /\ looseLine = <<"A", SP, "b">>
    /\ looseSnippetLine = <<"a", "b">>
    /\ looseResult

---------------------------------------------------------------------------
(* The candidate search of one snippet in one file *)

\* the most lines of a file, and of a snippet, handed to the candidate search
MaxSearchLines == 3

SearchFileTexts == { <<"a">>, <<"b">>, <<"a", "b">>, <<"a", SP, "b">> }

SearchSnippetTexts == { << >>, <<"a">>, <<"B">>, <<"a", "b">>, <<SP, "a">> }

SearchFiles == UNION { [1..n -> SearchFileTexts] : n \in 1..MaxSearchLines }

\* snippet.split(LINE_SPLIT) of a snippet that is trimmed and not empty
SearchSnippets ==
    { lines \in UNION { [1..n -> SearchSnippetTexts] : n \in 1..MaxSearchLines } :
         /\ JoinLF(lines) # << >>
         /\ Trim(JoinLF(lines)) = JoinLF(lines) }

InitCandidates ==
    /\ searchLines \in SearchFiles
    /\ searchSnippet \in SearchSnippets
    /\ searchResult = << >>
    /\ looseLine = << >> /\ looseSnippetLine = << >> /\ looseResult = FALSE
    /\ pc = "searching"
    /\ EngineIdle /\ DisplayIdle /\ MetricsIdle /\ RouteIdle
    /\ RegistryIdle /\ CompareIdle /\ CoercionIdle /\ HomeIdle

CollectSnippetCandidates ==
    /\ pc = "searching"
    /\ searchResult' = collectSnippetCandidates(searchLines, searchSnippet)
    /\ pc' = "collected"
    /\ UNCHANGED <<engineVars, displayVars, metricsVars, routeVars,
                   looseLine, looseSnippetLine, looseResult, searchLines, searchSnippet,
                   registryVars, compareVars, coercionVars, homeVars>>

NextCandidates == CollectSnippetCandidates

SpecCandidates == InitCandidates /\ [][NextCandidates]_vars

\* the non-blank lines of the searched snippet, trimmed, in their order
SearchedLines ==
    LET NonBlank(l) == Trim(l) # << >>
        kept == SelectSeq(searchSnippet, NonBlank)
    IN  [k \in 1..Len(kept) |-> Trim(kept[k])]

\* every non-blank snippet line loosely matches its file line from offset o
WindowAt(o) ==
    /\ Len(SearchedLines) >= 2
    /\ o + Len(SearchedLines) <= Len(searchLines)
    /\ \A j \in 1..Len(SearchedLines) :
          includesLoosely(searchLines[o + j], SearchedLines[j])

WindowsFound == { o \in 0..(Len(searchLines) - 1) : WindowAt(o) }

\* the 0-based indices of the file lines that loosely match `line`
MatchesOf(line) ==
    { i \in 0..(Len(searchLines) - 1) : includesLoosely(searchLines[i + 1], line) }

\* no non-blank line of the snippet is longer than line k
Longest(k) == \A j \in 1..Len(SearchedLines) : Len(SearchedLines[j]) <= Len(SearchedLines[k])

StrictlyAscending(seq) == \A i \in 1..(Len(seq) - 1) : seq[i] < seq[i + 1]

\* C22: without a window (none found, or fewer than two non-blank snippet
\* lines) the candidates are exactly the file lines that loosely match a
\* longest non-blank snippet line, ascending; with a window they are exactly
\* the window offsets.
C22_SignatureFallback ==
    pc = "collected" =>
        /\ StrictlyAscending(searchResult)
        /\ WindowsFound = {} =>
              \E k \in 1..Len(SearchedLines) :
                 /\ Longest(k)
                 /\ Range(searchResult) = MatchesOf(SearchedLines[k])
        /\ WindowsFound # {} => Range(searchResult) = WindowsFound

\* the window of 'a', 'ab' is nowhere in the file 'b', 'a b', 'a'; the
\* signature 'ab' finds the second line only, the shorter 'a' would find two
C22_Witness ==
    /\ pc = "collected"
    /\ searchSnippet = << <<"a">>, <<"a", "b">> >>
    /\ searchLines = << <<"b">>, <<"a", SP, "b">>, <<"a">> >>
    /\ WindowsFound = {}
    /\ searchResult = <<1>>

---------------------------------------------------------------------------
(* The range the candidate search emits *)

\* the finding came back through the candidate search (window or signature)
ByCandidate(i) == Reanchor(fileContent, findings[i]).path = "candidate"

\* the lines of the snippet the finding came back with, and those not blank
ReturnedSnippetLines(i) == SplitLines(Trim(results[i].evidence.snippet))

NonBlankCount(i) ==
    Cardinality({ k \in 1..Len(ReturnedSnippetLines(i)) :
                    Trim(ReturnedSnippetLines(i)[k]) # << >> })

\* C23 as claimed: the range has as many lines as the snippet, as far as the
\* file reaches.
C23_RangeAsClaimed ==
    Returned =>
        \A i \in 1..Len(findings) :
            ByCandidate(i) =>
                LET lines == results[i].evidence.lines
                IN  /\ lines # << >>
                    /\ lines[1] \in CandidateStarts(i)
                    /\ lines = Consecutive(lines[1],
                                 Min({ Len(ReturnedSnippetLines(i)),
                                       Len(FileLines) - lines[1] + 1 }))

\* C23: from the chosen candidate start s the engine emits s, s+1, ..., as
\* many numbers as the snippet has non-blank lines, cut off at the last line
\* of the file; the range is never empty.
C23_FinalRange ==
    Returned =>
        \A i \in 1..Len(findings) :
            ByCandidate(i) =>
                LET lines == results[i].evidence.lines
                IN  /\ lines # << >>
                    /\ lines[1] \in CandidateStarts(i)
                    /\ lines = Consecutive(lines[1],
                                 Min({ NonBlankCount(i),
                                       Len(FileLines) - lines[1] + 1 }))

\* a snippet of two lines found by its signature on the last line of the
\* file: one line is emitted
C23_Witness ==
    /\ Returned
    /\ \E i \in 1..Len(findings) :
          /\ ByCandidate(i)
          /\ NonBlankCount(i) = 2
          /\ results[i].evidence.lines = <<Len(FileLines)>>

---------------------------------------------------------------------------
(* The parts of a highlighted line *)

\* match, or the empty string when match is null
MatchText == IF highlight.match = Null THEN << >> ELSE highlight.match[1]

\* C27: the parts computeHighlightForLine returns reassemble the line:
\* before + (match or "") + after = lineText.
C27_HighlightPartition ==
    pc = "highlighted" => highlight.before \o MatchText \o highlight.after = lineText

\* the line 'bab' split around the snippet 'a'
C27_Witness ==
    /\ pc = "highlighted"
    /\ lineText = <<"b", "a", "b">>
    /\ highlight.before = <<"b">>
    /\ highlight.match = Some(<<"a">>)
    /\ highlight.after = <<"b">>

---------------------------------------------------------------------------
(* The emitted lines against the lines of the snippet *)

\* the snippet the finding came back with has no blank line
NoBlankLines(i) == NonBlankCount(i) = Len(ReturnedSnippetLines(i))

\* C28 as claimed: after a return through the candidate search, for a
\* snippet without blank lines, the k-th emitted line number names a file
\* line that loosely matches the k-th line of the snippet.  The engine does
\* not keep this when the candidate comes from the signature line of a
\* snippet of several lines.
C28_LinesLineUp ==
    Returned =>
        \A i \in 1..Len(findings) :
            (ByCandidate(i) /\ NoBlankLines(i)) =>
                \A k \in 1..Len(results[i].evidence.lines) :
                    /\ results[i].evidence.lines[k] \in 1..Len(FileLines)
                    /\ k <= Len(ReturnedSnippetLines(i))
                    /\ includesLoosely(FileLines[results[i].evidence.lines[k]],
                                       Trim(ReturnedSnippetLines(i)[k]))

---------------------------------------------------------------------------
(* Snippets of whitespace *)

\* the snippet has characters, all of them spaces, tabs or line breaks
WhitespaceOnly(snippet) == snippet # << >> /\ Trim(snippet) = << >>

\* C29 as claimed: a finding whose snippet is made of whitespace only comes
\* back with the lines the same finding with an empty snippet comes back
\* with.  The engine does not keep this: the snippet as delivered is searched
\* in the file before it is trimmed.
C29_WhitespaceAsEmpty ==
    Returned =>
        \A i \in 1..Len(findings) :
            WhitespaceOnly(findings[i].evidence.snippet) =>
                results[i].evidence.lines =
                    normalizeFindingLines(fileContent,
                        WithSnippet(findings[i], << >>)).evidence.lines

---------------------------------------------------------------------------
(* The allow-list registry and its cache *)

\* the analyzers that run in one process at a time (the compare endpoint
\* starts three)
MaxCallers == 3

Callers == 1..MaxCallers

\* each analyzer awaits selectFindings, which awaits loadRegistry, and then
\* awaits loadRegistry itself
CallsPerCaller == 2

InitRegistry ==
    /\ cache = Null
    /\ reads = 0
    /\ callers = [c \in Callers |-> [calls |-> 0, reading |-> FALSE, got |-> Null]]
    /\ pc = "serving"
    /\ EngineIdle /\ DisplayIdle /\ MetricsIdle /\ RouteIdle
    /\ SearchIdle /\ CompareIdle /\ CoercionIdle /\ HomeIdle

\* loadRegistry up to its await: return the cache, or start fs.readFile
LoadRegistry(c) ==
    /\ ~callers[c].reading
    /\ callers[c].calls < CallsPerCaller
    /\ IF cache # Null
       THEN /\ callers' = [callers EXCEPT ![c].calls = @ + 1, ![c].got = cache]
            /\ UNCHANGED reads
       ELSE /\ callers' = [callers EXCEPT ![c].reading = TRUE]
            /\ reads' = reads + 1
    /\ UNCHANGED <<cache, pc, engineVars, displayVars, metricsVars, routeVars,
                   searchVars, compareVars, coercionVars, homeVars>>

\* loadRegistry after its await: parse what was read into a new object,
\* store it in the cache and return it
ReadFileDone(c) ==
    /\ callers[c].reading
    /\ cache' = Some(c)
    /\ callers' = [callers EXCEPT ![c].reading = FALSE, ![c].calls = @ + 1,
                                  ![c].got = Some(c)]
    /\ UNCHANGED <<reads, pc, engineVars, displayVars, metricsVars, routeVars,
                   searchVars, compareVars, coercionVars, homeVars>>

NextRegistry ==
    \/ \E c \in Callers : LoadRegistry(c)
    \/ \E c \in Callers : ReadFileDone(c)

SpecRegistry == InitRegistry /\ [][NextRegistry]_vars

\* C24 as claimed: the allow-list file is read and parsed at most once and
\* every caller receives the same registry object.  The loader does not keep
\* this: a call that starts while another call's read is pending finds the
\* cache still empty and reads the file again.
C24_LoadedOnce ==
    /\ reads <= 1
    /\ \A c, d \in Callers :
          (callers[c].got # Null /\ callers[d].got # Null)
             => callers[c].got = callers[d].got

---------------------------------------------------------------------------
(* POST /api/compare *)

MODEL_SEQUENCE == <<"OpenAI", "Claude", "CodeBert">>

Models == Range(MODEL_SEQUENCE)

\* how the analysis of one model ends: with its data, or with a throw
Outcomes ==
    { Returns([findings |-> fs, summary |-> [file |-> "src/demo.ts"]]) :
        fs \in { << >>, <<Finding(<<"a">>, <<1>>, << >>)>> } }
      \cup { Raises(Error("Connection error.")),
             Raises(AnalysisError("Model did not return valid JSON.", 502)),
             Raises(NonError) }

CompareRequests == { [route |-> "compare", body |-> b] : b \in Bodies }

\* the promise of one runModel call
Pending == [settled |-> FALSE, result |-> << >>]
Settled(result) == [settled |-> TRUE, result |-> result]

\* runModel: { ok: true, ...data }, or { ok: false, error } from its catch
runModel(outcome) ==
    IF outcome.threw
    THEN [ok |-> FALSE,
          error |-> IF outcome.err.class = "none" THEN "Unknown error"
                    ELSE outcome.err.message]
    ELSE [ok |-> TRUE, findings |-> outcome.result.findings,
          summary |-> outcome.result.summary]

\* Promise.all resolving as soon as one promise has
AllSettled_any(promises) == \E m \in DOMAIN promises : promises[m].settled

\* Promise.all resolves when every promise has
AllSettled(promises) == \A m \in DOMAIN promises : promises[m].settled

InitCompare ==
    /\ request \in CompareRequests
    /\ upstream \in [Models -> Outcomes]
    /\ analyzerCalls = 0
    /\ response = << >>
    /\ entries = << >>
    /\ pc = "requested"
    /\ EngineIdle /\ DisplayIdle /\ MetricsIdle
    /\ SearchIdle /\ RegistryIdle /\ CoercionIdle /\ HomeIdle

\* POST up to `await Promise.all`: the payload test, then one runModel call
\* per model
PostCompare ==
    /\ pc = "requested"
    /\ IF request.body = Null
       THEN /\ response' = [status |-> 500,
                            body |-> [ok |-> FALSE,
                                      error |-> "Cannot destructure property 'file' of 'body' as it is null."]]
            /\ pc' = "responded"
            /\ UNCHANGED <<entries, analyzerCalls>>
       ELSE IF request.body[1].file = Null \/ request.body[1].file[1].content = Null
       THEN /\ response' = [status |-> 400,
                            body |-> [ok |-> FALSE, error |-> "Missing file payload."]]
            /\ pc' = "responded"
            /\ UNCHANGED <<entries, analyzerCalls>>
       ELSE /\ entries' = [m \in Models |-> Pending]
            /\ analyzerCalls' = Len(MODEL_SEQUENCE)
            /\ pc' = "awaiting"
            /\ UNCHANGED response
    /\ UNCHANGED <<request, upstream, engineVars, displayVars, metricsVars,
                   searchVars, registryVars, coercionVars, homeVars>>

\* the analysis of one model ends and its runModel promise resolves
RunModelSettles(m) ==
    /\ pc = "awaiting"
    /\ ~entries[m].settled
    /\ entries' = [entries EXCEPT ![m] = Settled(runModel(upstream[m]))]
    /\ UNCHANGED <<pc, routeVars, engineVars, displayVars, metricsVars,
                   searchVars, registryVars, coercionVars, homeVars>>

\* POST after `await Promise.all`
RespondCompare ==
    /\ pc = "awaiting"
    /\ AllSettled(entries)
    /\ response' = [status |-> 200,
                    body |-> [ok |-> TRUE,
                              models |-> [m \in Models |-> entries[m].result]]]
    /\ pc' = "responded"
    /\ UNCHANGED <<entries, request, upstream, analyzerCalls, engineVars, displayVars,
                   metricsVars, searchVars, registryVars, coercionVars, homeVars>>

NextCompare ==
    \/ PostCompare
    \/ \E m \in Models : RunModelSettles(m)
    \/ RespondCompare

SpecCompare == InitCompare /\ [][NextCompare]_vars

\* the request carries a file with a string content
ValidFile ==
    /\ request.body # Null
    /\ request.body[1].file # Null
    /\ request.body[1].file[1].content # Null

\* the entry the response must carry for a model, from how its analysis ended
EntryFor(m) ==
    IF upstream[m].threw
    THEN [ok |-> FALSE,
          error |-> IF upstream[m].err = NonError THEN "Unknown error"
                    ELSE upstream[m].err.message]
    ELSE [ok |-> TRUE] @@ upstream[m].result

\* C25: for a request with a valid file the three analyses are started
\* together, no response exists while one of them is unsettled, and the
\* response is 200 {ok:true, models} with exactly one entry per model, each
\* entry determined by the outcome of its own model alone: {ok:false, error}
\* for a model that threw, {ok:true, ...data} for the others.
C25_CompareFanOut ==
    ValidFile =>
        /\ pc = "awaiting" => (DOMAIN entries = Models /\ response = << >>)
        /\ pc = "responded" =>
              /\ \A m \in Models : entries[m].settled
              /\ response.status = 200
              /\ DOMAIN response.body = {"ok", "models"}
              /\ response.body.ok = TRUE
              /\ DOMAIN response.body.models = Models
              /\ \A m \in Models : response.body.models[m] = EntryFor(m)

\* Claude throws, the other two deliver: one failed entry among three
C25_Witness ==
    /\ pc = "responded"
    /\ ValidFile
    /\ upstream["Claude"].threw
    /\ ~upstream["OpenAI"].threw /\ ~upstream["CodeBert"].threw
    /\ response.status = 200
    /\ response.body.models["Claude"] = [ok |-> FALSE, error |-> "Connection error."]
    /\ response.body.models["OpenAI"].ok /\ response.body.models["CodeBert"].ok

---------------------------------------------------------------------------
(* The coercion of a model response: severities and summary counts *)

\* the most findings of a coerced response
MaxReported == 2

\* severity strings as models write them
RawSeverityStrings == { "Critical", " critical ", "HIGH", "High", "Medium", "Low", "Info" }

\* value.trim().toLowerCase() on these strings
TrimLowerCase(raw) ==
    CASE raw \in {"Critical", " critical "} -> "critical"
      [] raw \in {"HIGH", "High"} -> "high"
      [] raw = "Medium" -> "medium"
      [] raw = "Low" -> "low"
      [] OTHER -> "info"

\* the severity of a reported finding: absent, or a string
ReportedSeverities == { Null } \cup { Some(raw) : raw \in RawSeverityStrings }

\* the counts a model may put into its summary
ProvidedCounts == { Null, Some([total |-> 0, high |-> 0, medium |-> 0, low |-> 0]) }

Reports ==
    { [severities |-> sev, counts |-> c] :
        sev \in UNION { [1..n -> ReportedSeverities] : n \in 0..MaxReported },
        c \in ProvidedCounts }

normalizeSeverity(value) ==
    IF value = Null THEN "Medium"
    ELSE LET normalized == TrimLowerCase(value[1])
         IN  IF normalized = "critical" THEN "Critical"
             ELSE IF normalized = "high" THEN "High"
             ELSE IF normalized = "medium" THEN "Medium"
             ELSE IF normalized = "low" THEN "Low"
             ELSE "Medium"

mapSeverity(raw) ==
    LET normalized == TrimLowerCase(raw)
    IN  IF normalized = "high" THEN "High"
        ELSE IF normalized = "medium" THEN "Medium"
        ELSE IF normalized = "low" THEN "Low"
        ELSE "Low"

CountOf(severities, bucket) ==
    Cardinality({ i \in 1..Len(severities) : severities[i] \in bucket })

countBySeverity(severities) ==
    [total |-> Len(severities),
     high |-> CountOf(severities, {"High", "Critical"}),
     medium |-> CountOf(severities, {"Medium"}),
     low |-> CountOf(severities, {"Low"})]

\* the counts of the summary: those the model provided, else those computed
SummaryCounts(provided, computed) == IF provided = Null THEN computed ELSE provided[1]

normalizeModelResponse(payload) ==
    LET sev == [i \in 1..Len(payload.severities) |-> normalizeSeverity(payload.severities[i])]
    IN  [severities |-> sev, counts |-> SummaryCounts(payload.counts, countBySeverity(sev))]

normalizeClaudeOutput(raw) ==
    LET sev == [i \in 1..Len(raw.severities) |->
                   mapSeverity(IF raw.severities[i] = Null THEN "Low"
                               ELSE raw.severities[i][1])]
    IN  [severities |-> sev,
         counts |-> SummaryCounts(raw.counts,
                       [total |-> Len(sev),
                        high |-> CountOf(sev, {"High", "Critical"}),
                        medium |-> CountOf(sev, {"Medium"}),
                        low |-> CountOf(sev, {"Low"})])]

InitCoercion ==
    /\ reported \in Reports
    /\ coercion \in {"normalizeModelResponse", "normalizeClaudeOutput"}
    /\ coerced = << >>
    /\ pc = "parsed"
    /\ EngineIdle /\ DisplayIdle /\ MetricsIdle /\ RouteIdle
    /\ SearchIdle /\ RegistryIdle /\ CompareIdle /\ HomeIdle

\* analyzeWithGPT and analyzeWithCodeBert coerce what the model returned
NormalizeModelResponse ==
    /\ pc = "parsed"
    /\ coercion = "normalizeModelResponse"
    /\ coerced' = normalizeModelResponse(reported)
    /\ pc' = "coerced"
    /\ UNCHANGED <<reported, coercion, engineVars, displayVars, metricsVars, routeVars,
                   searchVars, registryVars, compareVars, homeVars>>

\* analyzeWithClaude coerces what the model returned
NormalizeClaudeOutput ==
    /\ pc = "parsed"
    /\ coercion = "normalizeClaudeOutput"
    /\ coerced' = normalizeClaudeOutput(reported)
    /\ pc' = "coerced"
    /\ UNCHANGED <<reported, coercion, engineVars, displayVars, metricsVars, routeVars,
                   searchVars, registryVars, compareVars, homeVars>>

NextCoercion == NormalizeModelResponse \/ NormalizeClaudeOutput

SpecCoercion == InitCoercion /\ [][NextCoercion]_vars

\* the findings the model reported as Critical, and the others
ReportedCritical ==
    { i \in 1..Len(reported.severities) : reported.severities[i] = Some("Critical") }

\* C26 as claimed: in both coercion paths every finding reported as Critical
\* is counted in the `high` bucket of the computed counts and in no other.
\* normalizeClaudeOutput does not keep this: mapSeverity knows no "critical".
C26_CriticalCountsAsHigh ==
    (pc = "coerced" /\ reported.counts = Null) =>
        /\ coerced.counts.high >= Cardinality(ReportedCritical)
        /\ coerced.counts.medium + coerced.counts.low
              <= Len(reported.severities) - Cardinality(ReportedCritical)

---------------------------------------------------------------------------
(* The Home page: file selection, analysis request and its response *)

\* the files the user can pick, by name, and what FileReader reads from them
HomeFiles == { "a.ts", "b.ts" }

ContentOfFile(name) == IF name = "a.ts" THEN <<"a">> ELSE <<"b">>

ModelChoices == { "OpenAI", "Claude", "CodeBert", "Both" }

\* what an endpoint finds in the content it was sent
FindingsIn(content) == << Finding(content, <<1>>, << >>) >>

\* the success the page stores: the response with its findings re-anchored
\* against the fileContent of the handleAnalyze call
Success(closure) ==
    [file |-> closure.path,
     content |-> closure.content,
     findings |-> normalizeFindings(closure.content, FindingsIn(closure.content))]

InitHome ==
    /\ selectedFile = Null
    /\ readers = {}
    /\ model \in ModelChoices
    /\ fetching = Null
    /\ isLoading = FALSE
    /\ comparisonData = Null
    /\ pc = "mounted"
    /\ EngineIdle /\ DisplayIdle /\ MetricsIdle /\ RouteIdle
    /\ SearchIdle /\ RegistryIdle /\ CompareIdle /\ CoercionIdle

\* handleFileChange: the file is set and the results cleared at once, the
\* content follows when the reader has loaded
HandleFileChange(f) ==
    /\ f \notin readers
    /\ selectedFile' = Some(f)
    /\ apiData' = Null
    /\ comparisonData' = Null
    /\ readers' = readers \cup {f}
    /\ UNCHANGED <<fileContent, findings, results, results2, pc, model, fetching, isLoading,
                   lineNumber, lineFindings, lineText, lineFinding, highlight,
                   metricsVars, routeVars, searchVars, registryVars, compareVars,
                   coercionVars>>

\* reader.onload
ReaderOnload(f) ==
    /\ f \in readers
    /\ fileContent' = ContentOfFile(f)
    /\ readers' = readers \ {f}
    /\ UNCHANGED <<findings, results, results2, pc, displayVars, selectedFile, model,
                   fetching, isLoading, comparisonData,
                   metricsVars, routeVars, searchVars, registryVars, compareVars,
                   coercionVars>>

\* handleAnalyze up to its await; the button is disabled while isLoading
HandleAnalyze ==
    /\ ~isLoading
    /\ IF selectedFile = Null \/ fileContent = << >>
       THEN UNCHANGED <<apiData, comparisonData, fetching, isLoading>>
       ELSE /\ isLoading' = TRUE
            /\ apiData' = Null
            /\ comparisonData' = Null
            /\ fetching' = Some([path |-> selectedFile[1], content |-> fileContent,
                                 model |-> model])
    /\ UNCHANGED <<engineVars, pc, selectedFile, readers, model,
                   lineNumber, lineFindings, lineText, lineFinding, highlight,
                   metricsVars, routeVars, searchVars, registryVars, compareVars,
                   coercionVars>>

\* handleAnalyze after its awaits: the response is stored, or the error
FetchResolves ==
    /\ fetching # Null
    /\ \E ok \in BOOLEAN :
          IF ~ok
          THEN /\ apiData' = IF fetching[1].model = "Both" THEN apiData ELSE Null
               /\ UNCHANGED comparisonData
          ELSE IF fetching[1].model = "Both"
          THEN /\ comparisonData' = Some([m \in Models |-> Success(fetching[1])])
               /\ UNCHANGED apiData
          ELSE /\ apiData' = Some(Success(fetching[1]))
               /\ UNCHANGED comparisonData
    /\ isLoading' = FALSE
    /\ fetching' = Null
    /\ UNCHANGED <<engineVars, pc, selectedFile, readers, model,
                   lineNumber, lineFindings, lineText, lineFinding, highlight,
                   metricsVars, routeVars, searchVars, registryVars, compareVars,
                   coercionVars>>

NextHome ==
    \/ \E f \in HomeFiles : HandleFileChange(f)
    \/ \E f \in HomeFiles : ReaderOnload(f)
    \/ HandleAnalyze
    \/ FetchResolves

SpecHome == InitHome /\ [][NextHome]_vars

\* the stored result was computed from the content of the selected file
OfSelectedFile(data) ==
    /\ selectedFile # Null
    /\ data.file = selectedFile[1]
    /\ data.content = ContentOfFile(selectedFile[1])

\* C30 as claimed: a request pairs a file's name with that file's content,
\* and whatever apiData or comparisonData holds was computed from the content
\* of the file now selected.  The page does not keep this: the name changes
\* with the selection, the content only when the reader has loaded, and a
\* response is stored whatever was selected meanwhile.
C30_ResultsOfSelectedFile ==
    /\ fetching # Null => fetching[1].content = ContentOfFile(fetching[1].path)
    /\ apiData # Null => OfSelectedFile(apiData[1])
    /\ comparisonData # Null => \A m \in Models : OfSelectedFile(comparisonData[1][m])

=============================================================================
